---------------------------- MODULE Spec2Model ----------------------------
(***************************************************************************)
(* Model of scripts/lift_gov_rules.py and scripts/lift_datatype_rules.py:  *)
(* the conversion of the governance spreadsheet (a grid of optional text   *)
(* cells) into Turtle node blocks.                                         *)
(*                                                                         *)
(* Text is modelled by TLA+ strings; Len, \o, SubSeq, Head and Tail act on *)
(* them character by character, so every text function below is computed  *)
(* the way the Python code computes it.  Cell text is ASCII plus the two   *)
(* characters of NonAscii; the Unicode normal forms leave ASCII unchanged. *)
(***************************************************************************)
EXTENDS Naturals, Sequences, FiniteSets, TLC

VARIABLES
  script,     \* which of the two scripts runs: "gov" or "datatype"
  grid,       \* the DataFrame read by main: grid[r][c], c = 1 is column 0
  pc,         \* position of main
  profiles,   \* the list returned by collect_profiles
  pidx,       \* build_turtle: index of the next profile of the for loop
  seen_ids,   \* build_turtle: the usage counter handed to camel_case_identifier
  lines,      \* build_turtle: the node blocks appended so far
  calls,      \* the calls of camel_case_identifier in this pass: label and result
  run,        \* number of the transformation pass in this process (1 or 2)
  output1     \* the document produced by the first pass

vars == <<script, grid, pc, profiles, pidx, seen_ids, lines, calls, run, output1>>

-----------------------------------------------------------------------------
(* Characters and the str methods the scripts use.                         *)

\* A cell of the DataFrame is NaN or holds a text: an empty or a one-element
\* tuple.
NaN == <<>>

Cell(s) == <<s>>

cell_text(v) == v[1]

isna(v) == v = NaN

Ch(s, i) == SubSeq(s, i, i)

UPPER == "ABCDEFGHIJKLMNOPQRSTUVWXYZ"

LOWER == "abcdefghijklmnopqrstuvwxyz"

DIGITS == "0123456789"

UpperSet == {Ch(UPPER, i) : i \in 1..Len(UPPER)}

LowerSet == {Ch(LOWER, i) : i \in 1..Len(LOWER)}

DigitSet == {Ch(DIGITS, i) : i \in 1..Len(DIGITS)}

AlnumSet == UpperSet \cup LowerSet \cup DigitSet

\* the no-break space U+00A0 and the precomposed e-acute U+00E9
NBSP == " "

EACUTE == "é"

NonAscii == {NBSP, EACUTE}

\* str.isspace() on the characters of the model
Whitespace == {" ", "\t", "\n", "\r", NBSP}

ToLower == [c \in UpperSet |-> Ch(LOWER, CHOOSE i \in 1..Len(UPPER) : Ch(UPPER, i) = c)]

ToUpper == [c \in LowerSet |-> Ch(UPPER, CHOOSE i \in 1..Len(LOWER) : Ch(LOWER, i) = c)]

LowerCh(c) == IF c \in UpperSet THEN ToLower[c] ELSE c

UpperCh(c) == IF c \in LowerSet THEN ToUpper[c] ELSE c

RECURSIVE lower(_)
lower(s) == IF s = "" THEN "" ELSE LowerCh(Head(s)) \o lower(Tail(s))

\* str.isupper(): at least one cased character and no lower-case one
isupper(s) ==
  /\ \E i \in 1..Len(s) : Ch(s, i) \in UpperSet
  /\ \A i \in 1..Len(s) : Ch(s, i) \notin LowerSet

isdigit(c) == c \in DigitSet

RECURSIVE lstrip(_)
lstrip(s) == IF s # "" /\ Head(s) \in Whitespace THEN lstrip(Tail(s)) ELSE s

RECURSIVE rstrip(_)
rstrip(s) ==
  IF s # "" /\ Ch(s, Len(s)) \in Whitespace THEN rstrip(SubSeq(s, 1, Len(s) - 1)) ELSE s

strip(s) == lstrip(rstrip(s))

\* str.rstrip(chars) for a single character
RECURSIVE rstripCh(_, _)
rstripCh(s, c) ==
  IF s # "" /\ Ch(s, Len(s)) = c THEN rstripCh(SubSeq(s, 1, Len(s) - 1), c) ELSE s

endswith(s, suffix) ==
  /\ Len(suffix) <= Len(s)
  /\ SubSeq(s, Len(s) - Len(suffix) + 1, Len(s)) = suffix

\* the Python test "token in text" on strings
contains(text, token) ==
  \E i \in 1..(Len(text) + 1) :
    /\ i + Len(token) - 1 <= Len(text)
    /\ SubSeq(text, i, i + Len(token) - 1) = token

\* str.replace(old, new) for a one-character old
RECURSIVE replace(_, _, _)
replace(s, old, new) ==
  IF s = "" THEN ""
  ELSE (IF Head(s) = old THEN new ELSE Head(s)) \o replace(Tail(s), old, new)

\* re.sub(r"[^a-z0-9]+", "", s)
RECURSIVE keep_lower_alnum(_)
keep_lower_alnum(s) ==
  IF s = "" THEN ""
  ELSE (IF Head(s) \in LowerSet \cup DigitSet THEN Head(s) ELSE "")
         \o keep_lower_alnum(Tail(s))

\* re.sub(r"\s+", " ", s)
RECURSIVE collapse_ws(_)
collapse_ws(s) ==
  IF s = "" THEN ""
  ELSE IF Head(s) \in Whitespace
       THEN " " \o collapse_ws(lstrip(s))
       ELSE Head(s) \o collapse_ws(Tail(s))

\* [p for p in re.split(r"[^0-9A-Za-z]+", s) if p]
RECURSIVE split_alnum(_, _)
split_alnum(s, cur) ==
  IF s = "" THEN (IF cur = "" THEN <<>> ELSE <<cur>>)
  ELSE IF Head(s) \in AlnumSet
       THEN split_alnum(Tail(s), cur \o Head(s))
       ELSE (IF cur = "" THEN <<>> ELSE <<cur>>) \o split_alnum(Tail(s), "")

\* str(n) for a natural number
RECURSIVE str(_)
str(n) == IF n < 10 THEN Ch(DIGITS, n + 1) ELSE str(n \div 10) \o Ch(DIGITS, (n % 10) + 1)

RECURSIVE join(_)
join(parts) == IF parts = <<>> THEN "" ELSE Head(parts) \o join(Tail(parts))

\* json.dumps of an ASCII string
RECURSIVE json_escape(_)
json_escape(s) ==
  IF s = "" THEN ""
  ELSE (CASE Head(s) = "\"" -> "\\\""
          [] Head(s) = "\\" -> "\\\\"
          [] Head(s) = "\n" -> "\\n"
          [] Head(s) = "\t" -> "\\t"
          [] Head(s) = "\r" -> "\\r"
          [] OTHER -> Head(s)) \o json_escape(Tail(s))

json_dumps(s) == "\"" \o json_escape(s) \o "\""

-----------------------------------------------------------------------------
(* Text normalisation.                                                     *)

\* unicodedata.normalize("NFKC", s): U+00A0 has the compatibility mapping
\* <noBreak> U+0020; every other character of the model is unchanged
RECURSIVE nfkc(_)
nfkc(s) ==
  IF s = "" THEN "" ELSE (IF Head(s) = NBSP THEN " " ELSE Head(s)) \o nfkc(Tail(s))

\* unicodedata.normalize("NFKD", s).encode("ascii", "ignore").decode("ascii"):
\* U+00E9 decomposes to "e" + U+0301 and the combining mark is dropped, U+00A0
\* becomes a space
RECURSIVE ascii_text(_)
ascii_text(s) ==
  IF s = "" THEN ""
  ELSE (CASE Head(s) = EACUTE -> "e"
          [] Head(s) = NBSP -> " "
          [] OTHER -> Head(s)) \o ascii_text(Tail(s))

normalize_text(value) == strip(nfkc(value))

normalize_label_text(value) == collapse_ws(normalize_text(value))

literal(value) == json_dumps(ascii_text(normalize_text(value)))

\* the three results True, False and None are the strings of these names
normalize_bool(value) ==
  LET collapsed == strip(rstripCh(normalize_text(value), "*"))
      lowered == lower(collapsed)
  IN  IF lowered \in {"yes", "y", "true"} THEN "True"
      ELSE IF lowered \in {"no", "n", "false"} THEN "False"
      ELSE "None"

-----------------------------------------------------------------------------
(* The static tables.  A dict is a sequence of its items in insertion      *)
(* order where the order is used, and a function where it is looked up.    *)

Scripts == {"gov", "datatype"}

\* PROPERTY_ORDER of lift_gov_rules.py
PROPERTY_ORDER_GOV ==
  << <<"Identifiability risks", "sagegov:identifiabilityRisk">>,
     <<"Access Level", "sagegov:accessLevel">>,
     <<"Description", "dct:description">>,
     <<"Capabilities", "sagegov:capabilities">>,
     <<"Examples", "sagegov:example">>,
     <<"Downloadable data", "sagegov:downloadable">>,
     <<"Redistribution", "sagegov:redistributable">>,
     <<"Affiliation Requirement", "sagegov:accessPrerequisite">>,
     <<"Synapse Account", "sagegov:requireSynapseAccount">>,
     <<"Human Subjects Training", "sagegov:requireHumanSubjectsTraining">>,
     <<"Data Access Request", "sagegov:requireDataAccessRequest">>,
     <<"Data Use Certificate Signed by Signing Official", "sagegov:requireDataUseCertificate">>,
     <<"General description of research objectives (posted)", "sagegov:requireResearchObjective">>,
     <<"Proof of IRB approval", "sagegov:requireIrbApproval">>,
     <<"Technical environment security standards", "sagegov:requireSecurity">>,
     <<"Approval Process", "sagegov:approvalProcess">> >>

\* PROPERTY_ORDER of lift_datatype_rules.py
PROPERTY_ORDER_DATATYPE ==
  << <<"Identifiability risks", "sagegov:identifiabilityRisk">>,
     <<"Access Level", "sagegov:accessLevel">>,
     <<"Description", "dct:description">>,
     <<"Capabilities", "sagegov:capabilities">>,
     <<"Examples", "sagegov:example">>,
     <<"Downloadable data", "sagegov:downloadable">>,
     <<"Redistribution", "sagegov:redistribution">>,
     <<"Affiliation Requirement", "sagegov:affiliationRequirement">>,
     <<"Synapse Account", "sagegov:synapseAccountRequirement">>,
     <<"Human Subjects Training", "sagegov:humanSubjectsTraining">>,
     <<"Data Access Request", "sagegov:dataAccessRequest">>,
     <<"Data Use Certificate Signed by Signing Official", "sagegov:dataUseCertificate">>,
     <<"General description of research objectives (posted)", "sagegov:researchObjectiveRequirement">>,
     <<"Proof of IRB approval", "sagegov:irbApproval">>,
     <<"Technical environment security standards", "sagegov:securityRequirements">>,
     <<"Approval Process", "sagegov:approvalProcess">> >>

PROPERTY_ORDER(sc) == IF sc = "gov" THEN PROPERTY_ORDER_GOV ELSE PROPERTY_ORDER_DATATYPE

BOOLEAN_FIELDS ==
  { "Downloadable data", "Redistribution", "Affiliation Requirement",
    "Synapse Account", "Human Subjects Training", "Data Access Request",
    "Data Use Certificate Signed by Signing Official",
    "General description of research objectives (posted)",
    "Proof of IRB approval" }

HEADER_ROWS == {"Access Prerequisites", "Request Submission and Approval Steps"}

DATA_TYPE_COLUMNS == {}

ALSO_DATA_LABELS == {"hipaa safe harbor"}

ACCESS_LEVEL_NOTE_PRED == "sagegov:accessLevelNote"

VALUE_STRINGS_TO_SKIP ==
  { "** with some exceptions at data contributors discretion",
    "** with some exceptions at data contributor's discretion" }

EXCEPTION_MARKER == "**"

SOURCE_NOTE == "reference/DataTypes-brief-Sept2025.xlsx"

\* the items (term, label) of ACCESS_LEVEL_DEFS of lift_gov_rules.py
ACCESS_LEVEL_DEFS_GOV ==
  << <<"AnonymousOrOpen", "Anonymous / Open">>,
     <<"Registered", "Registered">>,
     <<"RestrictedOrLimited", "Restricted / Limited">>,
     <<"Controlled", "Controlled">>,
     <<"Enclave", "Enclave">> >>

\* the items (term, label) of ACCESS_LEVEL_DEFS of lift_datatype_rules.py
ACCESS_LEVEL_DEFS_DATATYPE ==
  << <<"AnonymousOrOpen", "Anonymous / Open">>,
     <<"Registered", "Registered">>,
     <<"RestrictedLimited", "Restricted / Limited">>,
     <<"Controlled", "Controlled">>,
     <<"Enclave", "Enclave">> >>

ACCESS_LEVEL_DEFS(sc) ==
  IF sc = "gov" THEN ACCESS_LEVEL_DEFS_GOV ELSE ACCESS_LEVEL_DEFS_DATATYPE

IDENTIFIABILITY_RISK_DEFS ==
  << <<"LowIdentifiabilityRisk", "Low">>,
     <<"SomeIdentifiabilityRisk", "Some risks">>,
     <<"HighIdentifiabilityRisk", "High">> >>

SECURITY_STANDARD_DEFS ==
  << <<"NoSecurityStandard", "No security standard required">>,
     <<"NIST800171", "NIST 800-171">>,
     <<"ISO27001", "ISO 27001">>,
     <<"SecureCompliantEnclave", "Secure compliant enclave">> >>

\* the items (term, patterns) of SECURITY_STANDARD_KEYWORDS
SECURITY_STANDARD_KEYWORDS ==
  << <<"NoSecurityStandard", << <<"no">> >> >>,
     <<"NIST800171", << <<"nist", "800", "171">> >> >>,
     <<"ISO27001", << <<"iso", "27001">> >> >>,
     <<"SecureCompliantEnclave", << <<"secure", "enclave">> >> >> >>

\* {key(meta["label"]): term for term, meta in defs.items()}: a later item
\* with the same key replaces an earlier one
lookup_of(defs) ==
  LET key(i) == keep_lower_alnum(lower(defs[i][2]))
      keys == {key(i) : i \in 1..Len(defs)}
  IN  [k \in keys |->
         defs[CHOOSE i \in 1..Len(defs) :
                /\ key(i) = k
                /\ \A j \in 1..Len(defs) : key(j) = k => j <= i][1]]

ACCESS_LEVEL_LOOKUP_GOV == lookup_of(ACCESS_LEVEL_DEFS_GOV)

ACCESS_LEVEL_LOOKUP_DATATYPE == lookup_of(ACCESS_LEVEL_DEFS_DATATYPE)

ACCESS_LEVEL_LOOKUP(sc) ==
  IF sc = "gov" THEN ACCESS_LEVEL_LOOKUP_GOV ELSE ACCESS_LEVEL_LOOKUP_DATATYPE

IDENTIFIABILITY_RISK_LOOKUP == lookup_of(IDENTIFIABILITY_RISK_DEFS)

terms_of(defs) == {defs[i][1] : i \in 1..Len(defs)}

RESERVED_IDENTIFIERS_GOV ==
  terms_of(ACCESS_LEVEL_DEFS_GOV) \cup terms_of(IDENTIFIABILITY_RISK_DEFS)
    \cup terms_of(SECURITY_STANDARD_DEFS)

RESERVED_IDENTIFIERS_DATATYPE ==
  terms_of(ACCESS_LEVEL_DEFS_DATATYPE) \cup terms_of(IDENTIFIABILITY_RISK_DEFS)

RESERVED_IDENTIFIERS(sc) ==
  IF sc = "gov" THEN RESERVED_IDENTIFIERS_GOV ELSE RESERVED_IDENTIFIERS_DATATYPE

\* the subjects that CLASS_BLOCK of lift_gov_rules.py declares
CLASS_BLOCK_GOV ==
  { "sagegov:AccessProfile", "sagegov:Data", "sagegov:AccessLevel",
    "sagegov:SecurityStandard", "sagegov:AccessProcess",
    "sagegov:DataAccessCommitteeApproval", "sagegov:SynapseAccountCheck",
    "sagegov:AutomatedClickwrap", "sagegov:IdentifiabilityRisk",
    "sagegov:AccessProfileRule" }

\* the subjects that CLASS_BLOCK of lift_datatype_rules.py declares
CLASS_BLOCK_DATATYPE ==
  { "sagegov:AccessProfile", "sagegov:Data", "sagegov:AccessLevel",
    "sagegov:IdentifiabilityRisk", "sagegov:AccessProfileRule" }

\* the keys of PROPERTY_DECLARATIONS
PROPERTY_DECLARATIONS ==
  { "sagegov:hasCapability", "sagegov:hasAccessPrerequisite", "sagegov:allowsException",
    "sagegov:approvalProcess", "sagegov:requireSynapseAccount",
    "sagegov:recommendedAccessLevel" }

\* the keys of SUBPROPERTY_MAP
SUBPROPERTY_MAP ==
  { "sagegov:humanSubjectsTraining", "sagegov:dataAccessRequest",
    "sagegov:dataUseCertificate", "sagegov:researchObjectiveRequirement",
    "sagegov:irbApproval", "sagegov:securityRequirements" }

\* the keys of MANUAL_SUBPROPERTY_ASSERTIONS
MANUAL_SUBPROPERTY_ASSERTIONS == {"sagegov:requireSynapseAccount"}

\* child.split(":", 1)[1]
local_name(iri) ==
  LET colon == CHOOSE i \in 1..Len(iri) : Ch(iri, i) = ":" /\ \A j \in 1..(i - 1) : Ch(iri, j) # ":"
  IN  SubSeq(iri, colon + 1, Len(iri))

\* f"sagegov:require{local_name[0].upper()}{local_name[1:]}"
require_child(child) ==
  "sagegov:require" \o UpperCh(Head(local_name(child))) \o Tail(local_name(child))

\* the subjects of the blocks of property_axioms_block
property_axioms_subjects ==
  PROPERTY_DECLARATIONS \cup {require_child(child) : child \in SUBPROPERTY_MAP}
    \cup MANUAL_SUBPROPERTY_ASSERTIONS

\* the subjects of the blocks of a *_defs_block
defs_block_subjects(defs) == {"sagegov:" \o term : term \in terms_of(defs)}

\* the subjects of header_blocks of build_turtle in lift_gov_rules.py
header_subjects_gov ==
  CLASS_BLOCK_GOV \cup defs_block_subjects(ACCESS_LEVEL_DEFS_GOV)
    \cup defs_block_subjects(IDENTIFIABILITY_RISK_DEFS)
    \cup defs_block_subjects(SECURITY_STANDARD_DEFS)
    \cup property_axioms_subjects

\* the subjects of header_blocks of build_turtle in lift_datatype_rules.py
header_subjects_datatype ==
  CLASS_BLOCK_DATATYPE \cup defs_block_subjects(ACCESS_LEVEL_DEFS_DATATYPE)
    \cup defs_block_subjects(IDENTIFIABILITY_RISK_DEFS)

header_subjects(sc) == IF sc = "gov" THEN header_subjects_gov ELSE header_subjects_datatype

-----------------------------------------------------------------------------
(* dict helpers: a dict is a function on the set of its keys.              *)

EmptyDict == <<>>

dict_get(d, k, default) == IF k \in DOMAIN d THEN d[k] ELSE default

dict_put(d, k, v) == [x \in (DOMAIN d) \cup {k} |-> IF x = k THEN v ELSE d[x]]

-----------------------------------------------------------------------------
(* The identifier allocator.                                               *)

chunk(p) == IF isupper(p) THEN p ELSE UpperCh(Head(p)) \o lower(Tail(p))

\* lines 219-234 of camel_case_identifier: the base of a label
identifier_base(sc, value) ==
  LET safe_value == IF sc = "gov" THEN replace(value, "/", " Or ") ELSE value
      parts == split_alnum(strip(safe_value), "")
      base0 == IF parts = <<>> THEN "Profile"
               ELSE join([i \in 1..Len(parts) |-> chunk(parts[i])])
      base1 == IF base0 \in RESERVED_IDENTIFIERS(sc) THEN base0 \o "Profile" ELSE base0
  IN  IF isdigit(Head(base1)) THEN "Profile" \o base1 ELSE base1

\* the suffix is the prior use count instead of one more
suffixed_id_prior_count(base, count) == IF count # 0 THEN base \o str(count) ELSE base

\* lines 235-241: the identifier for a base used count times before
suffixed_id(base, count) == IF count # 0 THEN base \o str(count + 1) ELSE base

\* returns the identifier and the updated usage counter
camel_case_identifier(sc, value, seen) ==
  LET base == identifier_base(sc, value)
      count == dict_get(seen, base, 0)
  IN  [id |-> suffixed_id(base, count), seen |-> dict_put(seen, base, count + 1)]

-----------------------------------------------------------------------------
(* The vocabulary resolvers.  None is the string "None".                   *)

\* the lookup key keeps the punctuation of the value
access_level_term_exact(sc, value) ==
  dict_get(ACCESS_LEVEL_LOOKUP(sc), lower(normalize_text(value)), "None")

access_level_term(sc, value) ==
  dict_get(ACCESS_LEVEL_LOOKUP(sc), keep_lower_alnum(lower(normalize_text(value))), "None")

identifiability_risk_term(value) ==
  dict_get(IDENTIFIABILITY_RISK_LOOKUP, keep_lower_alnum(lower(normalize_text(value))), "None")

\* any(...) in the place of all(...)
any_token_in(tokens, text) == \E i \in 1..Len(tokens) : contains(text, tokens[i])

\* all(token in text for token in tokens)
all_tokens_in(tokens, text) == \A i \in 1..Len(tokens) : contains(text, tokens[i])

security_standard_matches(patterns, text) ==
  \E i \in 1..Len(patterns) : all_tokens_in(patterns[i], text)

RECURSIVE select_terms(_, _)
select_terms(items, text) ==
  IF items = <<>> THEN <<>>
  ELSE (IF security_standard_matches(Head(items)[2], text) THEN <<Head(items)[1]>> ELSE <<>>)
         \o select_terms(Tail(items), text)

security_standard_terms(value) ==
  select_terms(SECURITY_STANDARD_KEYWORDS, replace(lower(normalize_text(value)), "/", " "))

format_value(label, value) ==
  LET as_bool == normalize_bool(value)
  IN  IF label \in BOOLEAN_FIELDS /\ as_bool # "None"
      THEN (IF as_bool = "True" THEN "true" ELSE "false")
      ELSE literal(value)

-----------------------------------------------------------------------------
(* collect_profiles.  Rows and columns are numbered from 1 here: row r is  *)
(* Python row r - 1, and grid[r][c + 1] is the cell of Python column c.    *)

Max(S) == CHOOSE x \in S : \A y \in S : y <= x

\* the labels of column 0 without the forward fill
row_labels_unfilled(df) ==
  [r \in 1..Len(df) |->
     IF isna(df[r][1]) THEN NaN ELSE Cell(normalize_text(cell_text(df[r][1])))]

\* df.iloc[:, 0].ffill().apply(normalize_text if not NaN)
row_labels(df) ==
  [r \in 1..Len(df) |->
     LET filled == {j \in 1..r : ~isna(df[j][1])}
     IN  IF filled = {} THEN NaN ELSE Cell(normalize_text(cell_text(df[Max(filled)][1])))]

\* the rows whose label is "Data Type", in increasing order
data_type_rows(labels) ==
  LET rows == {r \in 1..Len(labels) : labels[r] = Cell("Data Type")}
      nth[k \in 1..Cardinality(rows)] ==
        CHOOSE r \in rows : Cardinality({q \in rows : q < r}) = k - 1
  IN  [k \in 1..Cardinality(rows) |-> nth[k]]

\* 0 stands for None
row4_idx(labels) ==
  IF Len(data_type_rows(labels)) > 0 THEN data_type_rows(labels)[1] ELSE 0

\* the last row labelled Data Type in the place of the second
row5_idx_last(labels) ==
  IF Len(data_type_rows(labels)) > 1
  THEN data_type_rows(labels)[Len(data_type_rows(labels))] ELSE 0

row5_idx(labels) ==
  IF Len(data_type_rows(labels)) > 1 THEN data_type_rows(labels)[2] ELSE 0

\* the comparison without .lower()
skip_value_case_sensitive(value_text) ==
  replace(replace(value_text, "'", ""), "\"", "") \in VALUE_STRINGS_TO_SKIP

skip_value(value_text) ==
  lower(replace(replace(value_text, "'", ""), "\"", "")) \in VALUE_STRINGS_TO_SKIP

\* lines 383-393: whether the cell of a row is appended to the bucket
cell_collected(label, raw_value) ==
  /\ ~isna(label)
  /\ cell_text(label) \notin HEADER_ROWS
  /\ ~isna(raw_value)
  /\ normalize_text(cell_text(raw_value)) # ""
  /\ ~skip_value(normalize_text(cell_text(raw_value)))

EmptyBucket == [vals |-> EmptyDict, row4 |-> FALSE, row5 |-> FALSE]

\* one iteration of the row loop, lines 382-398
collect_cell(bucket, labels, r, raw_value) ==
  IF ~cell_collected(labels[r], raw_value) THEN bucket
  ELSE LET label_key == strip(cell_text(labels[r]))
           value_text == normalize_text(cell_text(raw_value))
       IN  [vals |-> dict_put(bucket.vals, label_key,
                              Append(dict_get(bucket.vals, label_key, <<>>), value_text)),
            row4 |-> bucket.row4
                       \/ (label_key = "Data Type" /\ row4_idx(labels) # 0 /\ r = row4_idx(labels)),
            row5 |-> bucket.row5
                       \/ (label_key = "Data Type" /\ row5_idx(labels) # 0 /\ r = row5_idx(labels))]

\* the row loop of column col over the rows 1..r
RECURSIVE collect_column(_, _, _, _)
collect_column(df, labels, col, r) ==
  IF r = 0 THEN EmptyBucket
  ELSE collect_cell(collect_column(df, labels, col, r - 1), labels, r, df[r][col + 1])

\* any(bucket.values())
any_values(bucket) == \E k \in DOMAIN bucket.vals : bucket.vals[k] # <<>>

\* the column loop over the Python columns 1..col.  The keys "__column_index__",
\* "__row4_data" and "__row5_data" of the bucket are the fields col, row4, row5.
RECURSIVE collect_columns(_, _, _)
collect_columns(df, labels, col) ==
  IF col = 0 THEN <<>>
  ELSE LET bucket == collect_column(df, labels, col, Len(df))
       IN  collect_columns(df, labels, col - 1)
             \o (IF any_values(bucket)
                 THEN << [vals |-> bucket.vals, col |-> col,
                          row4 |-> bucket.row4, row5 |-> bucket.row5] >>
                 ELSE <<>>)

\* df.shape[1] of a frame with at least one row
num_columns(df) == Len(df[1])

collect_profiles(df) == collect_columns(df, row_labels(df), num_columns(df) - 1)

-----------------------------------------------------------------------------
(* build_turtle: the body of the loop over the profiles.  A line of a node *)
(* block after its first is the pair <<predicate, object>>; the first line *)
(* is the subject with its classes.                                        *)

sagegov(term) == "sagegov:" \o term

\* lines 422-426: the names of a profile; profile.get(label, [])
profile_get(profile, label) == dict_get(profile.vals, label, <<>>)

\* the names without the fall-back to the first Access Level value
profile_names_data_type_only(profile) ==
  LET data_types == profile_get(profile, "Data Type")
  IN  [i \in 1..Len(data_types) |-> normalize_label_text(data_types[i])]

profile_names(profile) ==
  LET data_types == profile_get(profile, "Data Type")
      access_level_values == profile_get(profile, "Access Level")
  IN  IF data_types # <<>>
      THEN [i \in 1..Len(data_types) |-> normalize_label_text(data_types[i])]
      ELSE IF access_level_values # <<>>
           THEN <<normalize_label_text(access_level_values[1])>>
           ELSE <<>>

\* [name for name in names[1:] if name != pref_label]
RECURSIVE alt_labels(_, _)
alt_labels(rest, pref_label) ==
  IF rest = <<>> THEN <<>>
  ELSE (IF Head(rest) # pref_label THEN <<Head(rest)>> ELSE <<>>)
         \o alt_labels(Tail(rest), pref_label)

\* lines 433-438
is_data_of(profile) ==
  \/ (DATA_TYPE_COLUMNS # {} /\ profile.col \in DATA_TYPE_COLUMNS)
  \/ profile.row4
  \/ profile.row5

in_also_data(pref_label) == lower(normalize_label_text(pref_label)) \in ALSO_DATA_LABELS

\* the classes of the subject line
node_classes(sc, profile, pref_label) ==
  IF sc = "gov"
  THEN (IF ~is_data_of(profile) /\ ~in_also_data(pref_label)
        THEN <<"sagegov:AccessProfile">> ELSE <<>>)
  ELSE <<"skos:Concept">>
         \o (IF is_data_of(profile) THEN <<"sagegov:Data">> ELSE <<"sagegov:AccessProfile">>)
         \o (IF in_also_data(pref_label)
             THEN (IF is_data_of(profile) THEN <<"sagegov:AccessProfile">> ELSE <<"sagegov:Data">>)
             ELSE <<>>)

\* is_data where the loop over PROPERTY_ORDER starts
node_is_data(sc, profile, pref_label) ==
  is_data_of(profile) \/ (sc = "gov" /\ in_also_data(pref_label))

\* the loop without its break: the last value that resolves wins
canonical_index_last(sc, values) ==
  LET hits == {i \in 1..Len(values) : access_level_term(sc, values[i]) # "None"}
  IN  IF hits = {} THEN 0 ELSE CHOOSE i \in hits : \A j \in hits : j <= i

\* lines 466-472: the index of the first value that resolves, 0 for None
canonical_index(sc, values) ==
  LET hits == {i \in 1..Len(values) : access_level_term(sc, values[i]) # "None"}
  IN  IF hits = {} THEN 0 ELSE CHOOSE i \in hits : \A j \in hits : i <= j

RECURSIVE literal_lines(_, _)
literal_lines(predicate, values) ==
  IF values = <<>> THEN <<>>
  ELSE << <<predicate, literal(Head(values))>> >> \o literal_lines(predicate, Tail(values))

\* notes for the values after the canonical one only
note_lines_after_canonical(values, canonical) ==
  literal_lines(ACCESS_LEVEL_NOTE_PRED, SubSeq(values, canonical + 1, Len(values)))

\* lines 477-480: a note for every value but the canonical one
note_lines(values, canonical) ==
  literal_lines(ACCESS_LEVEL_NOTE_PRED,
                SubSeq(values, 1, canonical - 1) \o SubSeq(values, canonical + 1, Len(values)))

\* every value that resolves gets a canonical statement, the others a note
access_level_lines_each_canonical(sc, predicate, values) ==
  IF canonical_index(sc, values) = 0
  THEN literal_lines(predicate, values)
  ELSE [i \in 1..Len(values) |->
          IF access_level_term(sc, values[i]) # "None"
          THEN <<predicate, sagegov(access_level_term(sc, values[i]))>>
          ELSE <<ACCESS_LEVEL_NOTE_PRED, literal(values[i])>>]

\* lines 462-481
access_level_lines(sc, predicate, values) ==
  LET canonical == canonical_index(sc, values)
  IN  IF canonical = 0
      THEN literal_lines(predicate, values)
      ELSE << <<predicate, sagegov(access_level_term(sc, values[canonical]))>> >>
             \o note_lines(values, canonical)

\* lines 482-489
RECURSIVE identifiability_lines(_, _)
identifiability_lines(predicate, values) ==
  IF values = <<>> THEN <<>>
  ELSE LET term == identifiability_risk_term(Head(values))
       IN  << <<predicate, IF term # "None" THEN sagegov(term) ELSE literal(Head(values))>> >>
             \o identifiability_lines(predicate, Tail(values))

term_lines(predicate, terms) ==
  [i \in 1..Len(terms) |-> <<predicate, sagegov(terms[i])>>]

\* lines 492-497: the statements of one security-standard value
security_value_lines(predicate, value) ==
  LET terms == security_standard_terms(value)
  IN  IF terms # <<>> THEN term_lines(predicate, terms)
      ELSE << <<predicate, literal(value)>> >>

\* lines 490-498
RECURSIVE security_lines(_, _)
security_lines(predicate, values) ==
  IF values = <<>> THEN <<>>
  ELSE security_value_lines(predicate, Head(values)) \o security_lines(predicate, Tail(values))

\* lines 501-514: the statements of one approval-process value
approval_value_lines(predicate, value) ==
  LET normalized == normalize_text(value)
      lowered == lower(normalized)
  IN  IF lowered = "no" THEN <<>>
      ELSE IF contains(lowered, "dac")
           THEN << <<predicate, "sagegov:DataAccessCommittee">> >>
      ELSE IF contains(lowered, "automated") /\ contains(lowered, "clickwrap")
           THEN << <<predicate, "sagegov:AutomatedClickwrap">> >>
      ELSE IF contains(lowered, "synapse") /\ contains(lowered, "account")
           THEN << <<predicate, "sagegov:SynapseAccountCheck">> >>
      ELSE << <<predicate, literal(normalized)>> >>

\* lines 499-515
RECURSIVE approval_lines(_, _)
approval_lines(predicate, values) ==
  IF values = <<>> THEN <<>>
  ELSE approval_value_lines(predicate, Head(values)) \o approval_lines(predicate, Tail(values))

\* the flag for any trailing asterisk
exception_flag_any_asterisk(sc, value) == sc = "gov" /\ endswith(value, "*")

\* line 517; the datatype script has no exception flag
exception_flag(sc, value) == sc = "gov" /\ endswith(value, EXCEPTION_MARKER)

\* lines 517-520 (gov), line 344 (datatype): the statements of one value of
\* a field that has no branch of its own
generic_value_lines(sc, label, predicate, value) ==
  << <<predicate, format_value(label, value)>> >>
    \o (IF exception_flag(sc, value) THEN << <<"sagegov:allowsException", "true">> >> ELSE <<>>)

RECURSIVE generic_lines(_, _, _, _)
generic_lines(sc, label, predicate, values) ==
  IF values = <<>> THEN <<>>
  ELSE generic_value_lines(sc, label, predicate, Head(values))
         \o generic_lines(sc, label, predicate, Tail(values))

\* one iteration of the loop over PROPERTY_ORDER
property_lines(sc, label, predicate, values) ==
  IF values = <<>> THEN <<>>
  ELSE IF label = "Access Level" THEN access_level_lines(sc, predicate, values)
  ELSE IF label = "Identifiability risks" THEN identifiability_lines(predicate, values)
  ELSE IF sc = "gov" /\ label = "Technical environment security standards"
       THEN security_lines(predicate, values)
  ELSE IF sc = "gov" /\ label = "Approval Process" THEN approval_lines(predicate, values)
  ELSE generic_lines(sc, label, predicate, values)

\* the items of PROPERTY_ORDER taken from the last to the first
RECURSIVE reversed_property_lines(_, _, _)
reversed_property_lines(sc, profile, n) ==
  IF n = 0 THEN <<>>
  ELSE property_lines(sc, PROPERTY_ORDER(sc)[n][1], PROPERTY_ORDER(sc)[n][2],
                      profile_get(profile, PROPERTY_ORDER(sc)[n][1]))
         \o reversed_property_lines(sc, profile, n - 1)

\* the loop over the first n items of PROPERTY_ORDER
RECURSIVE ordered_property_lines(_, _, _)
ordered_property_lines(sc, profile, n) ==
  IF n = 0 THEN <<>>
  ELSE ordered_property_lines(sc, profile, n - 1)
         \o property_lines(sc, PROPERTY_ORDER(sc)[n][1], PROPERTY_ORDER(sc)[n][2],
                           profile_get(profile, PROPERTY_ORDER(sc)[n][1]))

wrote_access_level(profile) == profile_get(profile, "Access Level") # <<>>

\* lines 521-522
default_access_level_lines(sc, profile, pref_label) ==
  IF node_is_data(sc, profile, pref_label) /\ ~wrote_access_level(profile)
  THEN << <<"sagegov:accessLevel", "sagegov:AnonymousOrOpen">> >>
  ELSE <<>>

\* line 523
source_line == <<"dct:source", literal(SOURCE_NOTE)>>

\* the node block of a profile that has a name; field col records the
\* column the block comes from
node_block(sc, profile, node_id) ==
  LET names == profile_names(profile)
      pref_label == names[1]
      alts == alt_labels(Tail(names), pref_label)
  IN  [ id |-> node_id,
        col |-> profile.col,
        classes |-> node_classes(sc, profile, pref_label),
        stmts |->
          << <<"skos:prefLabel", literal(pref_label)>> >>
            \o [i \in 1..Len(alts) |-> <<"skos:altLabel", literal(alts[i])>>]
            \o (IF sc = "gov" /\ node_is_data(sc, profile, pref_label)
                THEN << <<"rdfs:subClassOf", "sagegov:Data">> >> ELSE <<>>)
            \o ordered_property_lines(sc, profile, Len(PROPERTY_ORDER(sc)))
            \o default_access_level_lines(sc, profile, pref_label)
            \o <<source_line>> ]

-----------------------------------------------------------------------------
(* The input grids.  A layout gives, for each row, the cell of column 0    *)
(* and the set of cells a data column may hold in that row; GridsOf is the *)
(* set of grids of a layout with n data columns.                           *)

\* the number of data columns of the grids of LayoutsNames
NumNameCols == 3

\* the number of data columns of the grids of LayoutsCollect and LayoutsFields
NumDataCols == 2

\* the number of data columns of the grids of LayoutsClasses
NumClassCols == 1

RowsOf(rowspec, n) == {<<rowspec[1]>> \o cs : cs \in [1..n -> rowspec[2]]}

RECURSIVE GridsOf(_, _)
GridsOf(layout, n) ==
  IF layout = <<>> THEN {<<>>}
  ELSE {<<row>> \o rest : row \in RowsOf(Head(layout), n), rest \in GridsOf(Tail(layout), n)}

GridsOfAll(layouts, n) == UNION {GridsOf(layout, n) : layout \in layouts}

\* the caveat of the spreadsheet, with and without the apostrophe
PLACEHOLDER_APOSTROPHE == "** With some exceptions at data Contributor's discretion"

PLACEHOLDER_PLAIN == "** with some exceptions at data contributors discretion"

\* labels that share a base, a label that ends in a digit, the label of a
\* reserved identifier, a label without any letter or digit
LayoutNames ==
  << <<Cell("Data Type"),
       {NaN, Cell("Foo"), Cell("foo"), Cell("Foo2"), Cell("Controlled"), Cell("--")}>> >>

\* cells above the first label, under a section header and under the
\* unlabeled row below it; a blank cell under a label
LayoutHeader ==
  << <<NaN, {Cell("Top")}>>,
     <<Cell("Data Type"), {NaN, Cell(" "), Cell("Alpha")}>>,
     <<Cell("Access Prerequisites"), {NaN, Cell("Held")}>>,
     <<NaN, {NaN, Cell("Below")}>> >>

\* placeholder cells, and columns without a name
LayoutPlaceholder ==
  << <<Cell("Description"),
       {Cell("Text"), Cell(PLACEHOLDER_APOSTROPHE), Cell(PLACEHOLDER_PLAIN)}>>,
     <<Cell("Access Level"), {NaN, Cell("Open")}>>,
     <<Cell(" Data Type "), {NaN, Cell("Alpha")}>> >>

\* an Access Level list of one to three values, from a continuation row and
\* a row that repeats the label
LayoutAccess ==
  << <<Cell("Data Type"), {Cell("Clinical")}>>,
     <<Cell("Access Level"), {Cell("Registered"), Cell("Open")}>>,
     <<NaN, {NaN, Cell("Controlled"), Cell("Public")}>>,
     <<Cell("Access Level"), {NaN, Cell("Enclave")}>> >>

\* columns named by their first Access Level value
LayoutAccessOnly ==
  << <<Cell("Access Level"), {NaN, Cell("Registered"), Cell("Open")}>>,
     <<NaN, {NaN, Cell("Controlled")}>> >>

\* the two-column scenario of the specification's round trip
LayoutRoundTrip ==
  << <<Cell("Data Type"), {Cell("Clinical"), Cell("Genomic")}>>,
     <<Cell("Access Level"), {Cell("Open"), Cell("Controlled**")}>> >>

\* values of two boolean fields, with and without the marker
LayoutBoolean ==
  << <<Cell("Data Type"), {Cell("Clinical")}>>,
     <<Cell("Synapse Account"), {NaN, Cell("Yes**"), Cell("no"), Cell("Maybe**")}>>,
     <<Cell("Proof of IRB approval"), {NaN, Cell("Y *")}>> >>

\* security standards in one cell and in a continuation row
LayoutSecurity ==
  << <<Cell("Data Type"), {Cell("Clinical")}>>,
     <<Cell("Technical environment security standards"),
       {NaN, Cell("NIST 800-171 / ISO 27001"), Cell("SOC2"),
        Cell("Secure enclave, not downloadable")}>>,
     <<NaN, {NaN, Cell("ISO 9001")}>> >>

LayoutApproval ==
  << <<Cell("Data Type"), {Cell("Clinical")}>>,
     <<Cell("Approval Process"),
       {NaN, Cell("DAC review"), Cell("No"), Cell("Automated clickwrap"),
        Cell("Synapse account"), Cell("Manual")}>> >>

\* a vocabulary field with literal fall-back, and a marked free-text value
LayoutIdentifiability ==
  << <<Cell("Data Type"), {Cell("Clinical")}>>,
     <<Cell("Identifiability risks"), {NaN, Cell("Low"), Cell("Unknown")}>>,
     <<Cell("Description"), {NaN, Cell("Notes**")}>> >>

\* a repeated value in a continuation row
LayoutRepeat ==
  << <<Cell("Description"), {NaN, Cell("Text")}>>,
     <<NaN, {NaN, Cell("Text")}>>,
     <<Cell("Data Type"), {Cell("Alpha")}>> >>

\* three rows with the forward-filled label Data Type, the second a
\* continuation row; the label of the override list as a Data Type and as
\* an Access Level value
LayoutMarkers ==
  << <<Cell("Data Type"), {NaN, Cell("Alpha"), Cell("HIPAA  Safe Harbor")}>>,
     <<NaN, {NaN, Cell("Beta")}>>,
     <<Cell("Access Level"), {NaN, Cell("Open"), Cell("hipaa safe harbor")}>>,
     <<Cell("Data Type"), {NaN, Cell("Gamma"), Cell("hipaa safe harbor")}>> >>

\* labels whose identifier is the name of a class, of an access process or
\* of a vocabulary term
LayoutClassNames ==
  << <<Cell("Data Type"),
       {Cell("Data"), Cell("access level"), Cell("Automated Clickwrap"), Cell("Enclave"),
        Cell("ISO 27001")}>> >>

LayoutsNames == {LayoutNames}

LayoutsCollect == {LayoutHeader, LayoutPlaceholder, LayoutRepeat}

LayoutsClasses == {LayoutMarkers, LayoutClassNames}

LayoutsFields ==
  {LayoutAccess, LayoutAccessOnly, LayoutRoundTrip, LayoutBoolean, LayoutSecurity,
   LayoutApproval, LayoutIdentifiability}

GridsNames == GridsOfAll(LayoutsNames, NumNameCols)

GridsCollect == GridsOfAll(LayoutsCollect, NumDataCols)

GridsFields == GridsOfAll(LayoutsFields, NumDataCols)

GridsClasses == GridsOfAll(LayoutsClasses, NumClassCols)

Grids == GridsNames \cup GridsCollect \cup GridsFields \cup GridsClasses

-----------------------------------------------------------------------------
(* main, and a second transformation pass in the same process.             *)

\* the usage counter kept from the previous call
kept_seen_ids(old) == old

\* line 420: seen_ids is a new dict in every call of build_turtle
new_seen_ids(old) == EmptyDict

InitWith(grids) ==
  /\ script \in Scripts
  /\ grid \in grids
  /\ pc = "start"
  /\ profiles = <<>>
  /\ pidx = 1
  /\ seen_ids = EmptyDict
  /\ lines = <<>>
  /\ calls = <<>>
  /\ run = 1
  /\ output1 = <<>>

Init == InitWith(Grids)

\* main without the test of the profiles
CollectThenBuild ==
  /\ pc = "start"
  /\ profiles' = collect_profiles(grid)
  /\ pc' = "build"
  /\ UNCHANGED <<script, grid, pidx, seen_ids, lines, calls, run, output1>>

\* main, lines 538-541: collect_profiles, and the fatal error of no profile
Collect ==
  /\ pc = "start"
  /\ profiles' = collect_profiles(grid)
  /\ pc' = IF profiles' = <<>> THEN "error" ELSE "build"
  /\ UNCHANGED <<script, grid, pidx, seen_ids, lines, calls, run, output1>>

\* build_turtle, lines 410-420
BuildBegin ==
  /\ pc = "build"
  /\ seen_ids' = new_seen_ids(seen_ids)
  /\ lines' = <<>>
  /\ calls' = <<>>
  /\ pidx' = 1
  /\ pc' = "loop"
  /\ UNCHANGED <<script, grid, profiles, run, output1>>

\* build_turtle, lines 421-524: one iteration of the loop over the profiles
BuildProfile ==
  /\ pc = "loop"
  /\ pidx <= Len(profiles)
  /\ LET profile == profiles[pidx]
         names == profile_names(profile)
         alloc == camel_case_identifier(script, names[1], seen_ids)
     IN  IF names = <<>>
         THEN UNCHANGED <<seen_ids, lines, calls>>
         ELSE /\ seen_ids' = alloc.seen
              /\ lines' = Append(lines, node_block(script, profile, alloc.id))
              /\ calls' = Append(calls, [value |-> names[1], id |-> alloc.id])
  /\ pidx' = pidx + 1
  /\ UNCHANGED <<script, grid, pc, profiles, run, output1>>

\* build_turtle, line 525, and main, line 545: the document is written
BuildReturn ==
  /\ pc = "loop"
  /\ pidx > Len(profiles)
  /\ pc' = "written"
  /\ UNCHANGED <<script, grid, profiles, pidx, seen_ids, lines, calls, run, output1>>

\* the same grid is transformed again in the same process; the locals of
\* the first pass are gone, its document is kept for comparison
Again ==
  /\ pc = "written"
  /\ run = 1
  /\ run' = 2
  /\ output1' = lines
  /\ pc' = "start"
  /\ profiles' = <<>>
  /\ lines' = <<>>
  /\ calls' = <<>>
  /\ pidx' = 1
  /\ UNCHANGED <<script, grid, seen_ids>>

Next == Collect \/ BuildBegin \/ BuildProfile \/ BuildReturn \/ Again

Spec == Init /\ [][Next]_vars

\* the same program on the grids of one group of layouts
SpecNames == InitWith(GridsNames) /\ [][Next]_vars

SpecCollect == InitWith(GridsCollect) /\ [][Next]_vars

SpecFields == InitWith(GridsFields) /\ [][Next]_vars

SpecClasses == InitWith(GridsClasses) /\ [][Next]_vars

-----------------------------------------------------------------------------
(* Vocabulary of the properties.                                           *)

\* profiles holds the result of collect_profiles for the grid
Collected == pc \in {"build", "loop", "written", "error"}

\* the Python indices of the data columns
DataCols == 1..(num_columns(grid) - 1)

GridRows == 1..Len(grid)

RowLabel(r) == row_labels(grid)[r]

\* column c has a cell that collect_profiles keeps
HasCollectedCell(c) == \E r \in GridRows : cell_collected(RowLabel(r), grid[r][c + 1])

\* column c has a kept cell in a row labelled Data Type or Access Level
HasNameCell(c) ==
  \E r \in GridRows :
    /\ cell_collected(RowLabel(r), grid[r][c + 1])
    /\ cell_text(RowLabel(r)) \in {"Data Type", "Access Level"}

NodesOfCol(c) == {i \in 1..Len(lines) : lines[i].col = c}

ProfilesOfCol(c) == {i \in 1..Len(profiles) : profiles[i].col = c}

ProfileOfNode(node) == profiles[CHOOSE i \in 1..Len(profiles) : profiles[i].col = node.col]

ValuesOfNode(node, label) == profile_get(ProfileOfNode(node), label)

StmtsWith(node, preds) == SelectSeq(node.stmts, LAMBDA st : st[1] \in preds)

Count(node, pred) == Len(StmtsWith(node, {pred}))

Nodes == {lines[i] : i \in 1..Len(lines)}

AllowsException == <<"sagegov:allowsException", "true">>

-----------------------------------------------------------------------------
(* C1: one node block per column with a kept cell, none for other columns  *)

\* C1 as stated: when the document is written, every data column that has
\* a non-empty, non-placeholder cell in a row with a non-header label has
\* exactly one node block, and every other column has none.
C1_NodePerCollectedColumn ==
  pc = "written" =>
    \A c \in DataCols :
      Cardinality(NodesOfCol(c)) = (IF HasCollectedCell(c) THEN 1 ELSE 0)

\* C1 amended: when the document is written, a data column has exactly one
\* node block if it has a kept cell in a row labelled Data Type or Access
\* Level, and no node block otherwise.
C1_NodePerNamedColumn ==
  pc = "written" =>
    \A c \in DataCols :
      Cardinality(NodesOfCol(c)) = (IF HasNameCell(c) THEN 1 ELSE 0)

\* a written document with a node for one column and none for another
\* column that has kept cells, all under other labels
C1_Witness ==
  /\ pc = "written"
  /\ \E c \in DataCols : HasNameCell(c) /\ Cardinality(NodesOfCol(c)) = 1
  /\ \E c \in DataCols : HasCollectedCell(c) /\ ~HasNameCell(c) /\ NodesOfCol(c) = {}

-----------------------------------------------------------------------------
(* C2: the identifiers of a run are pairwise distinct                      *)

\* C2: the identifiers returned by the calls of camel_case_identifier in a
\* build_turtle run are pairwise distinct.
C2_IdentifiersDistinct ==
  \A i, j \in 1..Len(calls) : i # j => calls[i].id # calls[j].id

-----------------------------------------------------------------------------
(* C3: the identifiers of the labels of one base                           *)

BaseOfCall(i) == identifier_base(script, calls[i].value)

\* the number of calls up to call i that have the base of call i
RankOfCall(i) == Cardinality({j \in 1..i : BaseOfCall(j) = BaseOfCall(i)})

CallsOfBase(b) == {i \in 1..Len(calls) : BaseOfCall(i) = b}

\* C3: among the calls whose labels yield one base, the first returns the
\* base, the k-th (k >= 2) the base followed by k, the identifiers are
\* pairwise distinct, and the counter of the base is the number of calls.
C3_SameBaseSequence ==
  \A i \in 1..Len(calls) :
    /\ calls[i].id = (IF RankOfCall(i) = 1 THEN BaseOfCall(i)
                      ELSE BaseOfCall(i) \o str(RankOfCall(i)))
    /\ \A j \in CallsOfBase(BaseOfCall(i)) : j # i => calls[j].id # calls[i].id
    /\ BaseOfCall(i) \in DOMAIN seen_ids
    /\ seen_ids[BaseOfCall(i)] = Cardinality(CallsOfBase(BaseOfCall(i)))

\* three labels of the base Foo got Foo, Foo2 and Foo3
C3_Witness ==
  /\ Len(calls) = 3
  /\ \A i \in 1..3 : BaseOfCall(i) = "Foo"
  /\ <<calls[1].id, calls[2].id, calls[3].id>> = <<"Foo", "Foo2", "Foo3">>
  /\ \E i \in 1..3 : calls[i].value = "foo"
  /\ seen_ids["Foo"] = 3

-----------------------------------------------------------------------------
(* C4: the canonical access level is the first value that resolves         *)

Resolves(value) == access_level_term(script, value) # "None"

ResolvingIndices(values) == {i \in 1..Len(values) : Resolves(values[i])}

Min(S) == CHOOSE x \in S : \A y \in S : x <= y

AccessStmts(node) == StmtsWith(node, {"sagegov:accessLevel", ACCESS_LEVEL_NOTE_PRED})

\* the values other than the one at index f, in list order
OtherValues(values, f) ==
  [k \in 1..(Len(values) - 1) |-> values[IF k < f THEN k ELSE k + 1]]

\* C4: in a node whose Access Level list has a value that resolves, the
\* access-level statements are the canonical statement for the term of the
\* first resolving value, followed by one note literal for every other
\* value, in list order.
C4_FirstResolvingIsCanonical ==
  \A node \in Nodes :
    LET values == ValuesOfNode(node, "Access Level")
    IN  ResolvingIndices(values) # {} =>
          LET f == Min(ResolvingIndices(values))
          IN  AccessStmts(node) =
                << <<"sagegov:accessLevel",
                     "sagegov:" \o access_level_term(script, values[f])>> >>
                  \o [k \in 1..(Len(values) - 1) |->
                        <<ACCESS_LEVEL_NOTE_PRED, literal(OtherValues(values, f)[k])>>]

\* Registered, Controlled gives canonical Registered and a note Controlled;
\* Open, Controlled, Enclave gives canonical Controlled and two notes
C4_Witness ==
  /\ \E node \in Nodes :
       /\ ValuesOfNode(node, "Access Level") = <<"Registered", "Controlled">>
       /\ AccessStmts(node) = << <<"sagegov:accessLevel", "sagegov:Registered">>,
                                 <<"sagegov:accessLevelNote", "\"Controlled\"">> >>
  /\ \E node \in Nodes :
       /\ ValuesOfNode(node, "Access Level") = <<"Open", "Controlled", "Enclave">>
       /\ AccessStmts(node) = << <<"sagegov:accessLevel", "sagegov:Controlled">>,
                                 <<"sagegov:accessLevelNote", "\"Open\"">>,
                                 <<"sagegov:accessLevelNote", "\"Enclave\"">> >>

-----------------------------------------------------------------------------
(* C5: the number of canonical access-level statements of a node           *)

\* C5 as stated: no node has more than one statement with the predicate
\* sagegov:accessLevel.
C5_AtMostOneAccessLevel ==
  \A node \in Nodes : Count(node, "sagegov:accessLevel") <= 1

\* C5 amended: a node whose Access Level list has a value that resolves has
\* exactly one sagegov:accessLevel statement and a note for every other
\* value; a node whose list has values and none resolves has one literal
\* sagegov:accessLevel statement per value and no note; a node without
\* Access Level values has at most one sagegov:accessLevel statement.
C5_AccessLevelCount ==
  \A node \in Nodes :
    LET values == ValuesOfNode(node, "Access Level")
    IN  /\ ResolvingIndices(values) # {} =>
             /\ Count(node, "sagegov:accessLevel") = 1
             /\ Count(node, ACCESS_LEVEL_NOTE_PRED) = Len(values) - 1
        /\ (values # <<>> /\ ResolvingIndices(values) = {}) =>
             /\ StmtsWith(node, {"sagegov:accessLevel"})
                  = [k \in 1..Len(values) |-> <<"sagegov:accessLevel", literal(values[k])>>]
             /\ Count(node, ACCESS_LEVEL_NOTE_PRED) = 0
        /\ values = <<>> =>
             /\ Count(node, "sagegov:accessLevel") <= 1
             /\ Count(node, ACCESS_LEVEL_NOTE_PRED) = 0

\* a node with two sagegov:accessLevel literals, and a node with three
\* values, one canonical statement and two notes
C5_Witness ==
  /\ \E node \in Nodes :
       /\ ValuesOfNode(node, "Access Level") = <<"Open", "Public">>
       /\ Count(node, "sagegov:accessLevel") = 2
  /\ \E node \in Nodes :
       /\ Len(ValuesOfNode(node, "Access Level")) = 3
       /\ Count(node, "sagegov:accessLevel") = 1
       /\ Count(node, ACCESS_LEVEL_NOTE_PRED) = 2

-----------------------------------------------------------------------------
(* C6: the exception marker on the values of a boolean field                *)

BooleanItems(sc) ==
  {i \in 1..Len(PROPERTY_ORDER(sc)) : PROPERTY_ORDER(sc)[i][1] \in BOOLEAN_FIELDS}

\* the positions of the statements of a predicate in a node, in order
Positions(node, pred) == {j \in 1..Len(node.stmts) : node.stmts[j][1] = pred}

NthPosition(node, pred, k) ==
  CHOOSE j \in Positions(node, pred) :
    Cardinality({q \in Positions(node, pred) : q < j}) = k - 1

\* a value without the marker that ends it
MarkerStripped(value) == SubSeq(value, 1, Len(value) - Len(EXCEPTION_MARKER))

\* the statement of a boolean field value, as C6 states it: computed from
\* the value with the marker stripped
StrippedObject(label, value) ==
  IF endswith(value, EXCEPTION_MARKER)
  THEN format_value(label, MarkerStripped(value))
  ELSE format_value(label, value)

\* the statement of a boolean field value: true or false when the value
\* without its trailing asterisks is a yes/no word, else the literal of the
\* whole value
BooleanObject(value) ==
  LET word == lower(strip(rstripCh(normalize_text(value), "*")))
  IN  IF word \in {"yes", "y", "true"} THEN "true"
      ELSE IF word \in {"no", "n", "false"} THEN "false"
      ELSE literal(value)

\* the k-th statement of the predicate of item i has the given object, and
\* is followed by the allows-exception statement exactly if flagged
BooleanStatementAt(node, i, k, object, flagged) ==
  LET pred == PROPERTY_ORDER(script)[i][2]
      j == NthPosition(node, pred, k)
  IN  /\ node.stmts[j] = <<pred, object>>
      /\ (node.stmts[j + 1] = AllowsException) <=> flagged

\* C6 as stated, for lift_gov_rules.py: every value of a boolean field has
\* one statement, computed from the value with the marker stripped, and the
\* statement is immediately followed by allowsException true exactly if the
\* value ends with the marker.
C6_StrippedValueThenException ==
  script = "gov" =>
    \A node \in Nodes : \A i \in BooleanItems(script) :
      LET label == PROPERTY_ORDER(script)[i][1]
          values == ValuesOfNode(node, label)
      IN  /\ Count(node, PROPERTY_ORDER(script)[i][2]) = Len(values)
          /\ \A k \in 1..Len(values) :
               BooleanStatementAt(node, i, k, StrippedObject(label, values[k]),
                                  endswith(values[k], EXCEPTION_MARKER))

\* C6 amended: in lift_gov_rules.py every value of a boolean field has one
\* statement: true or false when the value without its trailing asterisks
\* is a yes/no word, else the literal of the whole value with its marker;
\* the statement is immediately followed by allowsException true exactly if
\* the value ends with the marker.  lift_datatype_rules.py emits the same
\* statements and never an allowsException statement.
C6_BooleanThenException ==
  \A node \in Nodes :
    /\ \A i \in BooleanItems(script) :
         LET values == ValuesOfNode(node, PROPERTY_ORDER(script)[i][1])
         IN  /\ Count(node, PROPERTY_ORDER(script)[i][2]) = Len(values)
             /\ \A k \in 1..Len(values) :
                  BooleanStatementAt(node, i, k, BooleanObject(values[k]),
                                     script = "gov" /\ endswith(values[k], EXCEPTION_MARKER))
    /\ script = "datatype" => Count(node, "sagegov:allowsException") = 0

\* a gov node where Yes** gave true and allowsException, and a gov node
\* where Maybe** gave the literal with its marker and allowsException, and
\* a gov node where a value without marker gave no allowsException
C6_Witness ==
  /\ script = "gov"
  /\ \E node \in Nodes :
       /\ ValuesOfNode(node, "Synapse Account") = <<"Yes**">>
       /\ \E j \in 1..Len(node.stmts) :
            /\ node.stmts[j] = <<"sagegov:requireSynapseAccount", "true">>
            /\ node.stmts[j + 1] = AllowsException
  /\ \E node \in Nodes :
       /\ ValuesOfNode(node, "Synapse Account") = <<"Maybe**">>
       /\ \E j \in 1..Len(node.stmts) :
            /\ node.stmts[j] = <<"sagegov:requireSynapseAccount", "\"Maybe**\"">>
            /\ node.stmts[j + 1] = AllowsException
       /\ ValuesOfNode(node, "Proof of IRB approval") = <<"Y *">>
       /\ Count(node, "sagegov:allowsException") = 1

-----------------------------------------------------------------------------
(* C7: the two-column round trip                                           *)

RoundTripGrid ==
  << <<Cell("Data Type"), Cell("Clinical"), Cell("Genomic")>>,
     <<Cell("Access Level"), Cell("Open"), Cell("Controlled**")>> >>

\* the document has two nodes, for column 1 and column 2 in this order
TwoNodesInColumnOrder == Len(lines) = 2 /\ lines[1].col = 1 /\ lines[2].col = 2

\* C7 as stated: the round-trip grid gives two nodes in column order, and
\* node B has the canonical statement for Controlled and an allowsException
\* statement.
C7_RoundTripWithException ==
  (pc = "written" /\ grid = RoundTripGrid) =>
    /\ TwoNodesInColumnOrder
    /\ AccessStmts(lines[2]) = << <<"sagegov:accessLevel", "sagegov:Controlled">> >>
    /\ Count(lines[2], "sagegov:allowsException") = 1

\* C7 amended: the round-trip grid gives two nodes in column order; node B
\* has the canonical statement for Controlled and no allowsException
\* statement, and node A has the literal Open as its access level.
C7_RoundTrip ==
  (pc = "written" /\ grid = RoundTripGrid) =>
    /\ TwoNodesInColumnOrder
    /\ <<lines[1].id, lines[2].id>> = <<"Clinical", "Genomic">>
    /\ AccessStmts(lines[2]) = << <<"sagegov:accessLevel", "sagegov:Controlled">> >>
    /\ Count(lines[2], "sagegov:allowsException") = 0
    /\ AccessStmts(lines[1]) = << <<"sagegov:accessLevel", "\"Open\"">> >>

\* the round-trip grid has been transformed by lift_gov_rules.py
C7_Witness ==
  /\ pc = "written"
  /\ script = "gov"
  /\ grid = RoundTripGrid
  /\ Len(lines) = 2
  /\ <<"sagegov:accessLevel", "sagegov:Controlled">> \in {lines[2].stmts[j] : j \in 1..Len(lines[2].stmts)}

-----------------------------------------------------------------------------
(* C8: the statements of the security-standard field                       *)

SecurityLabel == "Technical environment security standards"

\* the standards whose tokens all occur in the normalized value, in the
\* order of SECURITY_STANDARD_KEYWORDS
MatchingStandards(value) ==
  LET normalized == replace(lower(normalize_text(value)), "/", " ")
      tokens(item) == item[2][1]
      matches(item) == \A t \in 1..Len(tokens(item)) : contains(normalized, tokens(item)[t])
  IN  SelectSeq(SECURITY_STANDARD_KEYWORDS, matches)

ExpectedSecurityStmts(value) ==
  IF MatchingStandards(value) = <<>>
  THEN << <<"sagegov:requireSecurity", literal(value)>> >>
  ELSE [k \in 1..Len(MatchingStandards(value)) |->
          <<"sagegov:requireSecurity", "sagegov:" \o MatchingStandards(value)[k][1]>>]

RECURSIVE ExpectedSecurityAll(_)
ExpectedSecurityAll(values) ==
  IF values = <<>> THEN <<>>
  ELSE ExpectedSecurityStmts(Head(values)) \o ExpectedSecurityAll(Tail(values))

\* C8: in lift_gov_rules.py the security statements of a node are, value by
\* value, one term statement per standard whose tokens all occur in the
\* normalized value, or one literal when no standard matches; the value
\* naming NIST 800-171 and ISO 27001 gives exactly these two terms.
C8_SecurityStandardStatements ==
  script = "gov" =>
    \A node \in Nodes :
      LET values == ValuesOfNode(node, SecurityLabel)
      IN  /\ StmtsWith(node, {"sagegov:requireSecurity"}) = ExpectedSecurityAll(values)
          /\ values = <<"NIST 800-171 / ISO 27001">> =>
               StmtsWith(node, {"sagegov:requireSecurity"})
                 = << <<"sagegov:requireSecurity", "sagegov:NIST800171">>,
                      <<"sagegov:requireSecurity", "sagegov:ISO27001">> >>

\* one cell gave two terms; a value that matches no standard gave a literal
C8_Witness ==
  /\ script = "gov"
  /\ \E node \in Nodes :
       /\ ValuesOfNode(node, SecurityLabel) = <<"NIST 800-171 / ISO 27001", "ISO 9001">>
       /\ StmtsWith(node, {"sagegov:requireSecurity"})
            = << <<"sagegov:requireSecurity", "sagegov:NIST800171">>,
                 <<"sagegov:requireSecurity", "sagegov:ISO27001">>,
                 <<"sagegov:requireSecurity", "\"ISO 9001\"">> >>

-----------------------------------------------------------------------------
(* C9: placeholder cells                                                   *)

\* the text is a placeholder caveat, compared without regard to case
IsPlaceholder(value_text) == lower(value_text) \in VALUE_STRINGS_TO_SKIP

CellIsPlaceholder(v) == ~isna(v) /\ IsPlaceholder(normalize_text(cell_text(v)))

CellIsBlank(v) == isna(v) \/ normalize_text(cell_text(v)) = ""

\* the literals of the placeholder cells of the grid
PlaceholderLiterals ==
  {literal(cell_text(grid[r][c + 1])) :
     <<r, c>> \in {rc \in GridRows \X DataCols : CellIsPlaceholder(grid[rc[1]][rc[2] + 1])}}

\* C9: no bucket holds a placeholder text, no node statement carries one,
\* and a column whose non-blank cells are all placeholders has no bucket.
C9_PlaceholderSkipped ==
  Collected =>
    /\ \A i \in 1..Len(profiles) : \A key \in DOMAIN profiles[i].vals :
         \A k \in 1..Len(profiles[i].vals[key]) : ~IsPlaceholder(profiles[i].vals[key][k])
    /\ LET skipped == PlaceholderLiterals
       IN  \A node \in Nodes : \A j \in 1..Len(node.stmts) : node.stmts[j][2] \notin skipped
    /\ \A c \in DataCols :
         (\A r \in GridRows : CellIsBlank(grid[r][c + 1]) \/ CellIsPlaceholder(grid[r][c + 1]))
           => ProfilesOfCol(c) = {}

\* a written document of a grid with a column that holds only the
\* placeholder with the apostrophe and a column that holds the placeholder
\* without it beside a name
C9_Witness ==
  /\ pc = "written"
  /\ \E c \in DataCols :
       /\ \E r \in GridRows : grid[r][c + 1] = Cell(PLACEHOLDER_APOSTROPHE)
       /\ \A r \in GridRows : CellIsBlank(grid[r][c + 1]) \/ CellIsPlaceholder(grid[r][c + 1])
       /\ ProfilesOfCol(c) = {}
  /\ \E c \in DataCols :
       /\ \E r \in GridRows : grid[r][c + 1] = Cell(PLACEHOLDER_PLAIN)
       /\ NodesOfCol(c) # {}

-----------------------------------------------------------------------------
(* C10: transforming the same grid twice                                   *)

\* C10: the second pass over the same grid writes the document of the
\* first pass, and the usage counter is empty when a pass enters its loop.
C10_SecondPassIdentical ==
  /\ (pc = "written" /\ run = 2) => lines = output1
  /\ (pc = "loop" /\ pidx = 1) => seen_ids = EmptyDict

\* the second pass has written a document that holds a suffixed identifier
C10_Witness ==
  /\ pc = "written"
  /\ run = 2
  /\ lines = output1
  /\ \E i \in 1..Len(calls) : calls[i].id # BaseOfCall(i)

-----------------------------------------------------------------------------
(* C11: the labels of the override list                                    *)

ClassesOf(node) == {node.classes[i] : i \in 1..Len(node.classes)}

StatementsOf(node) == {node.stmts[j] : j \in 1..Len(node.stmts)}

\* the node is declared a Data node: by its type in lift_datatype_rules.py,
\* by its subClassOf statement in lift_gov_rules.py
IsDataNode(node) ==
  \/ "sagegov:Data" \in ClassesOf(node)
  \/ <<"rdfs:subClassOf", "sagegov:Data">> \in StatementsOf(node)

IsAccessProfileNode(node) == "sagegov:AccessProfile" \in ClassesOf(node)

\* the first Data Type value, else the first Access Level value, with its
\* whitespace collapsed
PrimaryLabel(node) ==
  LET data_types == ValuesOfNode(node, "Data Type")
      access_levels == ValuesOfNode(node, "Access Level")
  IN  normalize_label_text(IF data_types # <<>> THEN data_types[1] ELSE access_levels[1])

InOverrideList(node) == lower(PrimaryLabel(node)) \in ALSO_DATA_LABELS

\* C11: a node whose primary label, lower-cased and whitespace-collapsed,
\* is in the override list is a Data node and an AccessProfile node, in
\* both scripts.
C11_OverrideDualClassification ==
  \A node \in Nodes : InOverrideList(node) => IsDataNode(node) /\ IsAccessProfileNode(node)

-----------------------------------------------------------------------------
(* C15: the default access level                                           *)

DefaultAccessLevel == <<"sagegov:accessLevel", "sagegov:AnonymousOrOpen">>

\* C15: a node without Access Level values has the default access-level
\* statement, and no other access-level statement, exactly if it is a Data
\* node; a node with Access Level values has one access-level or note
\* statement per value and nothing more; every Data node has an
\* access-level statement.
C15_DefaultAccessLevel ==
  \A node \in Nodes :
    LET values == ValuesOfNode(node, "Access Level")
    IN  /\ values = <<>> =>
             AccessStmts(node) = (IF IsDataNode(node) THEN <<DefaultAccessLevel>> ELSE <<>>)
        /\ values # <<>> => Len(AccessStmts(node)) = Len(values)
        /\ IsDataNode(node) => Count(node, "sagegov:accessLevel") >= 1

-----------------------------------------------------------------------------
(* C16: the classification by the marker rows                              *)

\* the rows whose forward-filled label is Data Type
DataTypeRows == {r \in GridRows : RowLabel(r) = Cell("Data Type")}

\* the first and the second of them
MarkerRows == {r \in DataTypeRows : Cardinality({q \in DataTypeRows : q < r}) < 2}

ContributedAtMarkerRow(c) ==
  \E r \in MarkerRows : cell_collected(RowLabel(r), grid[r][c + 1])

\* C16: a node whose primary label is outside the override list is a Data
\* node exactly if its column has a collected value at the first or the
\* second row labelled Data Type, and an AccessProfile node exactly if not.
C16_MarkerRowClassification ==
  \A node \in Nodes :
    ~InOverrideList(node) =>
      /\ IsDataNode(node) <=> ContributedAtMarkerRow(node.col)
      /\ IsAccessProfileNode(node) <=> ~ContributedAtMarkerRow(node.col)

\* a node named by a value of the third Data Type row only is an
\* AccessProfile node
C16_Witness ==
  /\ pc = "written"
  /\ Cardinality(DataTypeRows) = 3
  /\ \E node \in Nodes :
       /\ ValuesOfNode(node, "Data Type") = <<"Gamma">>
       /\ ~ContributedAtMarkerRow(node.col)
       /\ IsAccessProfileNode(node)
       /\ ~IsDataNode(node)

-----------------------------------------------------------------------------
(* C12: the order of the property statements of a node                     *)

\* the statements between the labels and the provenance statement
PropertySection(node) ==
  SelectSeq(node.stmts,
            LAMBDA st : st[1] \notin {"skos:prefLabel", "skos:altLabel", "rdfs:subClassOf",
                                      "dct:source"})

ItemOfLabel(label) ==
  CHOOSE i \in 1..Len(PROPERTY_ORDER(script)) : PROPERTY_ORDER(script)[i][1] = label

ItemOfPredicate(pred) ==
  CHOOSE i \in 1..Len(PROPERTY_ORDER(script)) : PROPERTY_ORDER(script)[i][2] = pred

\* the item of PROPERTY_ORDER that statement j belongs to: a note belongs
\* to Access Level, an allows-exception statement to the field of the
\* statement before it
RECURSIVE FieldOf(_, _)
FieldOf(seq, j) ==
  IF seq[j][1] = "sagegov:allowsException" THEN FieldOf(seq, j - 1)
  ELSE IF seq[j][1] = ACCESS_LEVEL_NOTE_PRED THEN ItemOfLabel("Access Level")
  ELSE ItemOfPredicate(seq[j][1])

InFieldOrder(seq) ==
  \A j, k \in 1..Len(seq) : j < k => FieldOf(seq, j) <= FieldOf(seq, k)

\* the node has the access-level statement that is emitted by default
HasDefault(node) ==
  /\ ValuesOfNode(node, "Access Level") = <<>>
  /\ DefaultAccessLevel \in StatementsOf(node)

\* a field without values has no statement
AbsentFieldsSilent(node) ==
  \A i \in 1..Len(PROPERTY_ORDER(script)) :
    (/\ ValuesOfNode(node, PROPERTY_ORDER(script)[i][1]) = <<>>
     /\ ~(HasDefault(node) /\ i = ItemOfLabel("Access Level")))
      => Count(node, PROPERTY_ORDER(script)[i][2]) = 0

\* C12 as stated: the property statements of every node, the default
\* access-level statement included, are in the order of PROPERTY_ORDER.
C12_AllInFieldOrder ==
  \A node \in Nodes : InFieldOrder(PropertySection(node))

\* C12 amended: the property statements of every node are in the order of
\* PROPERTY_ORDER, a field without values has no statement, and the default
\* access-level statement, when there is one, comes after all of them, as
\* the last statement before the provenance statement.
C12_FieldOrderThenDefault ==
  \A node \in Nodes :
    LET seq == PropertySection(node)
        n == Len(node.stmts)
    IN  /\ node.stmts[n][1] = "dct:source"
        /\ AbsentFieldsSilent(node)
        /\ IF HasDefault(node)
           THEN /\ node.stmts[n - 1] = DefaultAccessLevel
                /\ Count(node, "sagegov:accessLevel") = 1
                /\ InFieldOrder(SubSeq(seq, 1, Len(seq) - 1))
           ELSE InFieldOrder(seq)

\* a node of lift_gov_rules.py with an identifiability statement, a
\* description with its exception statement and the default access level,
\* in this order
C12_Witness ==
  /\ script = "gov"
  /\ \E node \in Nodes :
       PropertySection(node)
         = << <<"sagegov:identifiabilityRisk", "sagegov:LowIdentifiabilityRisk">>,
              <<"dct:description", "\"Notes**\"">>,
              AllowsException,
              DefaultAccessLevel >>

-----------------------------------------------------------------------------
(* C13: the fatal error of main                                            *)

\* collect_profiles has a bucket for the grid: some data column has a kept
\* cell
HasBucket == \E c \in DataCols : HasCollectedCell(c)

\* what holds of main in every state
FatalStateExactlyWhenNoBucket ==
  /\ Collected => (pc = "error" <=> ~HasBucket)
  /\ Collected => (profiles = <<>> <=> ~HasBucket)
  /\ pc = "error" => run = 1 /\ lines = <<>> /\ calls = <<>> /\ output1 = <<>>

\* what holds of every step of main: no step leaves the fatal error, and
\* the step after collect_profiles enters build_turtle exactly if there is
\* a bucket
FatalStepExactlyWhenNoBucket ==
  /\ pc # "error"
  /\ pc = "start" => pc' = (IF HasBucket THEN "build" ELSE "error")
  /\ pc' \in {"loop", "written"} => HasBucket

\* C13: main is in its fatal error exactly if the grid gives no bucket;
\* then build_turtle was not called, no document was written and main does
\* nothing more.  With a bucket main enters build_turtle, also when no
\* bucket has a name and the document has no node.
C13_FatalExactlyWhenNoBucket ==
  []FatalStateExactlyWhenNoBucket /\ [][FatalStepExactlyWhenNoBucket]_vars

\* main failed on a grid that has cells, all of them above the first label
\* or under a section header
C13_Witness ==
  /\ pc = "error"
  /\ \E r \in GridRows : \E c \in DataCols : ~CellIsBlank(grid[r][c + 1])

\* a document without node was written for a grid whose buckets have no name
C13_WrittenWithoutNode ==
  /\ pc = "written"
  /\ profiles # <<>>
  /\ lines = <<>>

-----------------------------------------------------------------------------
(* C14: no value of a vocabulary field is dropped                          *)

VocabularyLabels ==
  {"Identifiability risks", "Access Level", "Technical environment security standards"}

PredicateOfLabel(label) == PROPERTY_ORDER(script)[ItemOfLabel(label)][2]

\* the statements of a vocabulary field: those of its predicate, and the
\* notes for Access Level
ValueStatements(node, label) ==
  StmtsWith(node, {PredicateOfLabel(label)}
                    \cup (IF label = "Access Level" THEN {ACCESS_LEVEL_NOTE_PRED} ELSE {}))

\* the terms a value of the field resolves to in the running script
TermsOfValue(label, value) ==
  IF label = "Access Level" THEN {access_level_term(script, value)} \ {"None"}
  ELSE IF label = "Identifiability risks" THEN {identifiability_risk_term(value)} \ {"None"}
  ELSE IF script = "gov"
       THEN {security_standard_terms(value)[i] : i \in 1..Len(security_standard_terms(value))}
       ELSE {}

\* the statement carries the value: as one of its terms, or as its literal
Carries(st, label, value) ==
  \/ st[2] = literal(value)
  \/ \E term \in TermsOfValue(label, value) : st[2] = "sagegov:" \o term

NamedProfiles == {i \in 1..Len(profiles) : profile_names(profiles[i]) # <<>>}

\* the statement carries the value in the form the resolution calls for: a
\* term statement when the value resolves, its literal otherwise
CarriesResolved(st, label, value) ==
  IF TermsOfValue(label, value) # {}
  THEN \E term \in TermsOfValue(label, value) : st[2] = "sagegov:" \o term
  ELSE st[2] = literal(value)

C14_NoteForResolvedValue ==
  /\ pc = "written"
  /\ \E node \in Nodes :
       /\ ValuesOfNode(node, "Access Level") = <<"Open", "Controlled">>
       /\ ValueStatements(node, "Access Level")
            = << <<"sagegov:accessLevel", "sagegov:Controlled">>,
                 <<ACCESS_LEVEL_NOTE_PRED, "\"Open\"">> >>

-----------------------------------------------------------------------------
(* C17: the buckets of collect_profiles                                    *)

\* the label of row r filled forward from the nearest labelled row at or
\* above it; NaN above the first label
RECURSIVE FilledLabel(_)
FilledLabel(r) ==
  IF r = 0 THEN NaN
  ELSE IF grid[r][1] # NaN THEN Cell(normalize_text(cell_text(grid[r][1])))
  ELSE FilledLabel(r - 1)

\* a cell that is neither empty nor a placeholder
KeptCell(cell) ==
  /\ cell # NaN
  /\ normalize_text(cell_text(cell)) # ""
  /\ ~skip_value(normalize_text(cell_text(cell)))

\* the texts of the cells of column c that are kept, row by row; NaN for a
\* cell that is not kept
KeptTexts(c) ==
  [r \in GridRows |->
     IF KeptCell(grid[r][c + 1]) THEN Cell(normalize_text(cell_text(grid[r][c + 1]))) ELSE NaN]

\* the kept texts of the rows 1..r whose filled label is the label, in row
\* order
RECURSIVE KeptUpTo(_, _, _, _)
KeptUpTo(texts, filled, label, r) ==
  IF r = 0 THEN <<>>
  ELSE KeptUpTo(texts, filled, label, r - 1)
         \o (IF filled[r] = Cell(label) THEN texts[r] ELSE <<>>)

\* the labels that are not section headers
BucketLabels(filled) ==
  {cell_text(filled[r]) : r \in {q \in DOMAIN filled : filled[q] # NaN}} \ HEADER_ROWS

\* the lists that column c is to have: under each label that is no section
\* header, the kept cells of the rows with that filled label
ExpectedLists(c, filled) ==
  LET texts == KeptTexts(c)
  IN  [label \in BucketLabels(filled) |-> KeptUpTo(texts, filled, label, Len(grid))]

\* C17: the buckets of collect_profiles are in increasing column order,
\* none is without a value, a column has a bucket exactly when it has a
\* kept cell under a label that is no section header, and the list of a
\* bucket under a label is the kept cells of its column in the rows with
\* that filled label, in row order with duplicates; section-header rows,
\* the unlabelled rows below them and the rows above the first label give
\* nothing.
C17_BucketsOfCollectProfiles ==
  Collected =>
    LET filled == [r \in GridRows |-> FilledLabel(r)]
    IN  /\ \A i, j \in 1..Len(profiles) : i < j => profiles[i].col < profiles[j].col
        /\ \A i \in 1..Len(profiles) : profiles[i].col \in DataCols
        /\ \A c \in DataCols :
             LET expected == ExpectedLists(c, filled)
                 keys == {label \in DOMAIN expected : expected[label] # <<>>}
                 buckets == ProfilesOfCol(c)
             IN  IF keys = {} THEN buckets = {}
                 ELSE /\ Cardinality(buckets) = 1
                      /\ \A i \in buckets :
                           /\ DOMAIN profiles[i].vals = keys
                           /\ \A label \in keys : profiles[i].vals[label] = expected[label]

\* the second column alone has a bucket, holding its Data Type cell only,
\* while it has text above the first label, in the section-header row and
\* in the unlabelled row below it, and the first column has those and a
\* blank Data Type cell
C17_Witness ==
  /\ Collected
  /\ Len(profiles) = 1
  /\ profiles[1].col = 2
  /\ profiles[1].vals = ("Data Type" :> <<"Alpha">>)
  /\ \E r \in GridRows :
       /\ r > 1
       /\ FilledLabel(r) = Cell("Access Prerequisites")
       /\ grid[r][1] = NaN
       /\ KeptCell(grid[r][2]) /\ KeptCell(grid[r][3])
  /\ FilledLabel(1) = NaN /\ KeptCell(grid[1][2]) /\ KeptCell(grid[1][3])

\* a bucket whose list under one label holds the same text twice, the
\* second from an unlabelled row
C17_DuplicatesKept ==
  /\ Collected
  /\ \E i \in 1..Len(profiles) :
       /\ "Description" \in DOMAIN profiles[i].vals
       /\ profiles[i].vals["Description"] = <<"Text", "Text">>

-----------------------------------------------------------------------------
(* C18: the terms the nodes point at are declared in the header            *)

\* the predicates whose objects are vocabulary or access-process terms
TermPredicates ==
  { "sagegov:accessLevel", "sagegov:identifiabilityRisk",
    PredicateOfLabel("Technical environment security standards"),
    "sagegov:approvalProcess" }

\* the object is a term of the sagegov namespace, no literal
IsSagegovTerm(object) == Len(object) >= 8 /\ SubSeq(object, 1, 8) = "sagegov:"

\* the sagegov terms the node points at with one of the predicates
TermObjects(node) ==
  {node.stmts[j][2] : j \in {k \in 1..Len(node.stmts) :
                               /\ node.stmts[k][1] \in TermPredicates
                               /\ IsSagegovTerm(node.stmts[k][2])}}

\* C18: every sagegov term that a node statement has as the object of the
\* access-level, identifiability-risk, security-requirement or
\* approval-process predicate is a subject of the header section of the
\* same document.
C18_TermObjectsDeclared ==
  \A node \in Nodes : TermObjects(node) \subseteq header_subjects(script)

\* the same, for every term but the committee term of approval-process
\* values containing "dac"
C18_TermObjectsButCommitteeDeclared ==
  \A node \in Nodes :
    TermObjects(node) \ {"sagegov:DataAccessCommittee"} \subseteq header_subjects(script)

\* a node of lift_gov_rules.py that points at the committee term, which
\* the header does not declare
C18_CommitteeTermUndeclared ==
  /\ script = "gov"
  /\ "sagegov:DataAccessCommittee" \notin header_subjects(script)
  /\ "sagegov:DataAccessCommitteeApproval" \in header_subjects(script)
  /\ \E node \in Nodes :
       /\ ValuesOfNode(node, "Approval Process") = <<"DAC review">>
       /\ <<"sagegov:approvalProcess", "sagegov:DataAccessCommittee">>
            \in {node.stmts[j] : j \in 1..Len(node.stmts)}

-----------------------------------------------------------------------------
(* C19: node identifiers and the subjects of the header                    *)

\* the subject of a node block
SubjectOf(node) == "sagegov:" \o node.id

\* the subjects of the header that are vocabulary terms
VocabularySubjects == {"sagegov:" \o term : term \in RESERVED_IDENTIFIERS(script)}

\* C19: no node block has as its subject a subject of the header section,
\* neither a vocabulary term nor a fixed class or access-process name.
C19_NodeSubjectsNotInHeader ==
  \A node \in Nodes : SubjectOf(node) \notin header_subjects(script)

\* the part for the vocabulary terms: no node block has a vocabulary term
\* as its subject
C19_NodeSubjectsNotVocabulary ==
  \A node \in Nodes : SubjectOf(node) \notin VocabularySubjects

\* a node for the label "Data" whose subject is the class sagegov:Data of
\* the header, beside a node for a vocabulary label that got the suffix
C19_ClassNameAsNodeSubject ==
  /\ pc = "written"
  /\ "sagegov:Data" \in header_subjects(script)
  /\ \E node \in Nodes : PrimaryLabel(node) = "Data" /\ SubjectOf(node) = "sagegov:Data"

=============================================================================
